---- MODULE Spec2Model ----
(***************************************************************************)
(* OCSP verification of a TLS peer certificate                            *)
(* (x/mongo/driver/ocsp/ocsp.go): Verify, parseStaple, contactResponders  *)
(* with its errgroup of one goroutine per responder, and verifyResponse.  *)
(*                                                                         *)
(* Time is counted in seconds.  0 is Go's zero time.Time (IsZero), Verify  *)
(* is called at time 1, and the responses are stamped from time 2 on: an  *)
(* earlier stamp is what stamp 2 is when the clock reads 3.                *)
(***************************************************************************)
EXTENDS Integers, Sequences, FiniteSets, TLC

\* ---------------------------------------------------------------- bounds
\* Largest number of responder endpoints listed by the leaf certificate.
MaxResponders == 2
\* Largest thisUpdate / nextUpdate stamp carried by an OCSP response.
MaxStamp == 2
\* The clock stops advancing here, unless the deadline of a running query
\* is still to come; the caller's deadline is at most one second later.
MaxClock == 6

\* defaultRequestTimeout = 5 * time.Second
DefaultRequestTimeout == 5

Tasks == 1..MaxResponders

\* ------------------------------------------------------------ data model
\* *ocsp.Response, reduced to the three fields the package reads.  "from"
\* stands for the identity of the pointer: 0 for the staple, i for the
\* response decoded by the goroutine of endpoint i.
NoRes == [status |-> "none", thisUpdate |-> 0, nextUpdate |-> 0, from |-> 0]

Responses(statuses, who) ==
    [status : statuses, thisUpdate : 2..MaxStamp,
     nextUpdate : {0} \cup 2..MaxStamp, from : {who}]

\* connState.OCSPResponse: no bytes, bytes the codec rejects, or bytes the
\* codec decodes to resp.
Staples ==
    {[kind |-> "empty", resp |-> NoRes], [kind |-> "malformed", resp |-> NoRes]}
      \cup {[kind |-> "encoded", resp |-> r] :
                r \in Responses({"Good", "Revoked", "Unknown"}, 0)}

\* ctx.Deadline() of the caller's context: (deadline, ok).
Deadlines ==
    {[ok |-> FALSE, at |-> 0]}
      \cup {[ok |-> TRUE, at |-> d] : d \in 1..MaxClock + 1}

\* connState.VerifiedChains: the number of certificates of each chain.
Chains == {<<>>, <<0>>, <<0, 1>>, <<1>>}

VARIABLES
    verifiedChains,  \* connState.VerifiedChains
    pc,              \* Verify's position
    ret,             \* Verify's return value ("none" while running)
    res,             \* Verify's local res
    mustStaple,      \* parseStaple's mustStaple
    staple,          \* connState.OCSPResponse as parseStaple saw it
    callerDeadline,  \* ctx.Deadline() of the caller's context
    callerErr,       \* ctx.Err() of the caller's context
    clock,           \* time.Now()
    qpc,             \* contactResponders' position
    qret,            \* contactResponders' return value
    numEndpoints,    \* len(cfg.serverCert.OCSPServer)
    userContextUsed, \* contactResponders' userContextUsed
    derived,         \* cancelFn != nil: requestCtx is a derived context
    wantDeadline,    \* contactResponders' wantDeadline
    reqDeadline,     \* requestCtx.Deadline()
    groupCtxErr,     \* groupCtx.Err()
    groupErr,        \* the errgroup's first recorded error
    tpc,             \* position of each goroutine
    tout,            \* how each goroutine's request ended
    ocspResponses,   \* the buffered channel
    closed,          \* the channel has been closed
    published,       \* history: every response ever sent to the channel
    httpCalls,       \* history: number of http.DefaultClient.Do calls
    answered,        \* history: some Do returned an HTTP response
    callerAborted,   \* history: the caller's context was done before any
                     \*   responder answered, with a goroutine still to end
    validatorArg,    \* history: the response verifyResponse was called with
    currTime         \* verifyResponse's currTime

vars ==
    <<verifiedChains, pc, ret, res, mustStaple, staple, callerDeadline, callerErr, clock, qpc,
      qret, numEndpoints, userContextUsed, derived, wantDeadline, reqDeadline,
      groupCtxErr, groupErr, tpc, tout, ocspResponses, closed, published,
      httpCalls, answered, callerAborted, validatorArg, currTime>>

verifyVars ==
    <<verifiedChains, pc, ret, res, mustStaple, staple, validatorArg, currTime>>
ctxVars == <<callerDeadline, callerErr, clock>>
queryVars ==
    <<qpc, qret, numEndpoints, userContextUsed, derived, wantDeadline,
      reqDeadline, groupCtxErr, groupErr, tpc, tout, ocspResponses, closed,
      published, httpCalls, answered, callerAborted>>

\* -------------------------------------------------------- pure functions
\* time.Time.After / Before
After(t, u) == t > u
Before(t, u) == t < u
IsZero(t) == t = 0

\* Mutant of ChainError: the last chain is looked at, not the first.
ChainErrorLast(chains) ==
    IF Len(chains) = 0 THEN "errNoChains"
    ELSE IF chains[Len(chains)] = 0 THEN "errEmptyChain"
    ELSE "nil"

\* Verify, lines 49-56.
ChainError(chains) ==
    IF Len(chains) = 0 THEN "errNoChains"
    ELSE IF chains[1] = 0 THEN "errEmptyChain"
    ELSE "nil"

\* Mutant of ParseStaple: the Must-Staple test is missing.
ParseStapleNoMustStaple(must, st) ==
    IF st.kind = "empty"
      THEN [res |-> NoRes, err |-> "nil"]
    ELSE IF st.kind = "malformed"
      THEN [res |-> NoRes, err |-> "errParseStaple"]
    ELSE [res |-> st.resp, err |-> "nil"]

\* Mutant of ParseStaple: a staple the codec rejects counts as no staple.
ParseStapleDropsMalformed(must, st) ==
    IF must /\ st.kind = "empty"
      THEN [res |-> NoRes, err |-> "errMustStaple"]
    ELSE IF st.kind \in {"empty", "malformed"}
      THEN [res |-> NoRes, err |-> "nil"]
    ELSE [res |-> st.resp, err |-> "nil"]

\* parseStaple: (response, error).  The codec (ocsp.ParseResponseForCert)
\* fails on bytes of kind "malformed" and returns resp otherwise.
ParseStaple(must, st) ==
    IF must /\ st.kind = "empty"
      THEN [res |-> NoRes, err |-> "errMustStaple"]
    ELSE IF st.kind = "empty"
      THEN [res |-> NoRes, err |-> "nil"]
    ELSE IF st.kind = "malformed"
      THEN [res |-> NoRes, err |-> "errParseStaple"]
    ELSE [res |-> st.resp, err |-> "nil"]

\* Mutant of NeedsQuery: the responders are contacted whatever the staple.
NeedsQueryAlways(r) == TRUE

\* Verify, line 67: the responders are contacted when parseStaple gave no
\* response.
NeedsQuery(r) == r = NoRes

\* Verify, line 74: no response from the staple and the responders.
StatusUnknown(r) == r = NoRes

\* Mutant of VerifyResponse: nextUpdate is compared without the IsZero test.
VerifyResponseNoIsZero(r, now) ==
    IF After(r.thisUpdate, now) THEN "errThisUpdate"
    ELSE IF Before(r.nextUpdate, now) THEN "errNextUpdate"
    ELSE IF r.status = "Revoked" THEN "errRevoked"
    ELSE "nil"

\* verifyResponse
VerifyResponse(r, now) ==
    IF After(r.thisUpdate, now) THEN "errThisUpdate"
    ELSE IF ~IsZero(r.nextUpdate) /\ Before(r.nextUpdate, now) THEN "errNextUpdate"
    ELSE IF r.status = "Revoked" THEN "errRevoked"
    ELSE "nil"

\* Mutant of ComposeDeadline: a caller deadline equal to the cutoff is
\* replaced as well.
ComposeDeadlineNotBefore(now, deadline) ==
    LET want == now + DefaultRequestTimeout IN
    IF ~deadline.ok \/ ~Before(deadline.at, want)
      THEN [userContextUsed |-> FALSE, derived |-> TRUE, want |-> want,
            deadline |-> want]
      ELSE [userContextUsed |-> TRUE, derived |-> FALSE, want |-> want,
            deadline |-> deadline.at]

\* Mutant of ComposeDeadline: the ok result of ctx.Deadline() is not
\* looked at, so a caller's context without a deadline is kept as it is.
ComposeDeadlineIgnoresOk(now, deadline) ==
    LET want == now + DefaultRequestTimeout IN
    IF After(deadline.at, want)
      THEN [userContextUsed |-> FALSE, derived |-> TRUE, want |-> want,
            deadline |-> want]
      ELSE [userContextUsed |-> TRUE, derived |-> FALSE, want |-> want,
            deadline |-> deadline.at]

\* contactResponders, lines 135-146: which context the requests run under.
ComposeDeadline(now, deadline) ==
    LET want == now + DefaultRequestTimeout IN
    IF ~deadline.ok \/ After(deadline.at, want)
      THEN [userContextUsed |-> FALSE, derived |-> TRUE, want |-> want,
            deadline |-> want]
      ELSE [userContextUsed |-> TRUE, derived |-> FALSE, want |-> want,
            deadline |-> deadline.at]

\* How a request can end.  The first five are errors of http.Client.Do:
\* *url.Error wrapping context.Canceled, wrapping context.DeadlineExceeded,
\* wrapping another error whose Timeout() is true (a DNS or dial timeout),
\* wrapping an error that is no timeout (connection refused), and an error
\* that is no *url.Error.
TransportErrors ==
    {"ctxCanceled", "ctxDeadline", "netTimeout", "netError", "notURLError"}

IsURLError(o) == o # "notURLError"
Timeout(o) == o \in {"ctxDeadline", "netTimeout"}
Cancelled(o) == o = "ctxCanceled"

\* Mutant of TransportResult: context.Canceled is not tested for.
TransportResultTimeoutOnly(used, o) ==
    IF ~IsURLError(o) THEN "nil"
    ELSE IF used /\ Timeout(o) THEN "ocspError"
    ELSE "nil"

\* Mutant of TransportResult: userContextUsed is not tested for.
TransportResultAnyContext(used, o) ==
    IF ~IsURLError(o) THEN "nil"
    ELSE IF Timeout(o) \/ Cancelled(o) THEN "ocspError"
    ELSE "nil"

\* Lines 180-193: the goroutine's return value after a failed Do.
TransportResult(used, o) ==
    IF ~IsURLError(o) THEN "nil"
    ELSE IF used /\ (Timeout(o) \/ Cancelled(o)) THEN "ocspError"
    ELSE "nil"

\* Mutant of Inconclusive: the status is not tested.
InconclusiveNever(r) == FALSE

\* Line 207: a decoded response that is dropped.
Inconclusive(r) == r.status = "Unknown"

\* Mutant of NoQuery: the number of endpoints is not looked at.
NoQueryRequestOnly(n, requestOk) == ~requestOk

\* Lines 126-133: no endpoint, or ocsp.CreateRequest fails.
NoQuery(n, requestOk) == n = 0 \/ ~requestOk

\* Mutant of Receive: the response sent last is taken.
ReceiveLast(ch) == ch[Len(ch)]

\* Line 227: the receive from the channel takes the response sent first.
Receive(ch) == Head(ch)

\* Mutant of ChanCap: a channel with a single slot.
ChanCapOne(n) == 1

\* Line 154: the capacity of the channel, for n endpoints.
ChanCap(n) == n

\* Mutant of WaitError: the sentinel is not told apart from an error.
WaitErrorAny(err) == err

\* Line 220: the error contactResponders passes on.
WaitError(err) ==
    IF err # "nil" /\ err # "errGotOCSPResponse" THEN err ELSE "nil"

\* ------------------------------------------------------------------ Init
Init ==
    /\ verifiedChains \in Chains
    /\ pc = "start"
    /\ ret = "none"
    /\ res = NoRes
    /\ mustStaple = FALSE
    /\ staple = [kind |-> "empty", resp |-> NoRes]
    /\ callerDeadline \in Deadlines
    /\ clock = 1
    /\ callerErr = IF callerDeadline.ok /\ callerDeadline.at <= 1
                     THEN "DeadlineExceeded" ELSE "nil"
    /\ qpc = "idle"
    /\ qret = [res |-> NoRes, err |-> "nil"]
    /\ numEndpoints = 0
    /\ userContextUsed = TRUE
    /\ derived = FALSE
    /\ wantDeadline = 0
    /\ reqDeadline = 0
    /\ groupCtxErr = "nil"
    /\ groupErr = "nil"
    /\ tpc = [i \in Tasks |-> "none"]
    /\ tout = [i \in Tasks |-> "none"]
    /\ ocspResponses = <<>>
    /\ closed = FALSE
    /\ published = <<>>
    /\ httpCalls = 0
    /\ answered = FALSE
    /\ callerAborted = FALSE
    /\ validatorArg = NoRes
    /\ currTime = 0

\* ---------------------------------------------------------------- Verify
Return(e) == pc' = "done" /\ ret' = e

\* Verify, lines 49-61.
VerifyStart ==
    /\ pc = "start"
    /\ \E cfgOk \in BOOLEAN :
         IF ChainError(verifiedChains) # "nil"
           THEN Return(ChainError(verifiedChains))
         ELSE IF ~cfgOk THEN Return("errConfig")
         ELSE pc' = "parseStaple" /\ ret' = ret
    /\ UNCHANGED <<verifiedChains, res, mustStaple, staple, validatorArg,
                   currTime>>
    /\ UNCHANGED <<ctxVars, queryVars>>

\* Mutant of Check: an unknown status is an error.
CheckFailClosed(r) ==
    IF StatusUnknown(r)
      THEN /\ Return("errUnknown")
           /\ UNCHANGED <<validatorArg, currTime>>
      ELSE /\ validatorArg' = r
           /\ currTime' = clock
           /\ Return(VerifyResponse(r, clock))

\* Verify, lines 74-83, with res the response obtained: the values of ret,
\* validatorArg and currTime after them.
Check(r) ==
    IF StatusUnknown(r)
      THEN /\ Return("nil")
           /\ UNCHANGED <<validatorArg, currTime>>
      ELSE /\ validatorArg' = r
           /\ currTime' = clock
           /\ Return(VerifyResponse(r, clock))

\* Verify, lines 63-68, and lines 74-83 when the staple gave a response.
VerifyParseStaple ==
    /\ pc = "parseStaple"
    /\ \E must \in BOOLEAN, st \in Staples :
         LET p == ParseStaple(must, st) IN
         /\ mustStaple' = must
         /\ staple' = st
         /\ IF p.err # "nil"
              THEN /\ Return(p.err)
                   /\ UNCHANGED <<res, validatorArg, currTime>>
            ELSE IF NeedsQuery(p.res)
              THEN /\ pc' = "contactResponders"
                   /\ UNCHANGED <<ret, res, validatorArg, currTime>>
            ELSE /\ res' = p.res
                 /\ Check(p.res)
    /\ UNCHANGED <<verifiedChains, ctxVars, queryVars>>

\* Verify, lines 69-83: contactResponders has returned q.
AfterQuery(q) ==
    IF q.err # "nil"
      THEN /\ Return(q.err)
           /\ UNCHANGED <<res, validatorArg, currTime>>
      ELSE /\ res' = q.res
           /\ Check(q.res)

\* ----------------------------------------------------- contactResponders
Running(i) == tpc[i] \in {"start", "inflight", "sent"}

\* Mutant of AllDone: one goroutine that has ended is enough.
AllDoneFirst == \E i \in Tasks : tpc[i] = "done"

\* group.Wait: every goroutine has ended.
AllDone == \A i \in Tasks : ~Running(i)

\* The goroutine wrapper of errgroup.Group.Go: the first non-nil error is
\* kept and cancels groupCtx.
GroupRecord(err) ==
    /\ groupErr' = IF groupErr = "nil" THEN err ELSE groupErr
    /\ groupCtxErr' = IF err # "nil" /\ groupCtxErr = "nil" THEN "Canceled"
                                                            ELSE groupCtxErr

\* contactResponders, lines 126-218: the early returns (after which Verify
\* goes on at line 70), the choice of the context, the group, the channel
\* and one goroutine per endpoint.
CRBegin ==
    /\ pc = "contactResponders"
    /\ qpc = "idle"
    /\ \E n \in 0..MaxResponders, requestOk \in BOOLEAN :
         /\ numEndpoints' = n
         /\ IF NoQuery(n, requestOk)
              THEN /\ qpc' = "returned"
                   /\ qret' = [res |-> NoRes, err |-> "nil"]
                   /\ AfterQuery(qret')
                   /\ UNCHANGED <<userContextUsed, derived, wantDeadline,
                                  reqDeadline, groupCtxErr, tpc, callerAborted>>
              ELSE LET c == ComposeDeadline(clock, callerDeadline) IN
                   /\ qpc' = "running"
                   /\ qret' = qret
                   /\ userContextUsed' = c.userContextUsed
                   /\ derived' = c.derived
                   /\ wantDeadline' = c.want
                   /\ reqDeadline' = c.deadline
                   /\ groupCtxErr' = callerErr
                   /\ tpc' = [i \in Tasks |-> IF i <= n THEN "start" ELSE "none"]
                   /\ callerAborted' = (callerErr # "nil")
                   /\ UNCHANGED <<pc, ret, res, validatorArg, currTime>>
    /\ UNCHANGED <<groupErr, tout, ocspResponses, closed, published, httpCalls,
                   answered>>
    /\ UNCHANGED <<verifiedChains, mustStaple, staple, ctxVars>>

\* One goroutine ends with outcome o and return value err.
TaskEnd(i, o, err) ==
    /\ tpc' = [tpc EXCEPT ![i] = "done"]
    /\ tout' = [tout EXCEPT ![i] = o]
    /\ GroupRecord(err)

\* Lines 165-179: build the request and hand it to the client.  A request
\* whose context is already done fails at once with the context's error.
TaskStart(i) ==
    /\ qpc = "running"
    /\ tpc[i] = "start"
    /\ \E built \in BOOLEAN :
         IF ~built
           THEN TaskEnd(i, "buildFail", "nil") /\ httpCalls' = httpCalls
         ELSE /\ httpCalls' = httpCalls + 1
              /\ IF groupCtxErr = "Canceled"
                   THEN TaskEnd(i, "ctxCanceled",
                                TransportResult(userContextUsed, "ctxCanceled"))
                 ELSE IF groupCtxErr = "DeadlineExceeded"
                   THEN TaskEnd(i, "ctxDeadline",
                                TransportResult(userContextUsed, "ctxDeadline"))
                 ELSE /\ tpc' = [tpc EXCEPT ![i] = "inflight"]
                      /\ UNCHANGED <<tout, groupErr, groupCtxErr>>
    /\ UNCHANGED <<qpc, qret, numEndpoints, userContextUsed, derived,
                   wantDeadline, reqDeadline, ocspResponses, closed, published,
                   answered, callerAborted>>
    /\ UNCHANGED <<verifyVars, ctxVars>>

\* Lines 179-193: Do fails.  The context's error is a possible outcome only
\* once groupCtx is done; Do documents that its errors are *url.Error.
TaskTransportError(i) ==
    /\ qpc = "running"
    /\ tpc[i] = "inflight"
    /\ \E o \in TransportErrors \ {"notURLError"} :
         /\ o = "ctxCanceled" => groupCtxErr = "Canceled"
         /\ o = "ctxDeadline" => groupCtxErr = "DeadlineExceeded"
         /\ TaskEnd(i, o, TransportResult(userContextUsed, o))
    /\ UNCHANGED <<qpc, qret, numEndpoints, userContextUsed, derived,
                   wantDeadline, reqDeadline, ocspResponses, closed, published,
                   httpCalls, answered, callerAborted>>
    /\ UNCHANGED <<verifyVars, ctxVars>>

\* Lines 194-211: Do returns an HTTP response that yields no conclusive
\* OCSP response.
TaskSuppressed(i) ==
    /\ qpc = "running"
    /\ tpc[i] = "inflight"
    /\ \/ \E o \in {"non200", "readFail", "decodeFail"} : TaskEnd(i, o, "nil")
       \/ \E r \in Responses({"Good", "Revoked", "Unknown"}, i) :
            Inconclusive(r) /\ TaskEnd(i, "unknown", "nil")
    /\ answered' = TRUE
    /\ UNCHANGED <<qpc, qret, numEndpoints, userContextUsed, derived,
                   wantDeadline, reqDeadline, ocspResponses, closed, published,
                   httpCalls, callerAborted>>
    /\ UNCHANGED <<verifyVars, ctxVars>>

\* Mutant of TaskPublish: the goroutine goes on after the send, as if
\* the send sat in a retry loop.
TaskPublishAgain(i) ==
    /\ qpc = "running"
    /\ tpc[i] = "inflight"
    /\ \E r \in Responses({"Good", "Revoked", "Unknown"}, i) :
         /\ ~Inconclusive(r)
         /\ ocspResponses' = Append(ocspResponses, r)
         /\ published' = Append(published, r)
    /\ tout' = [tout EXCEPT ![i] = "conclusive"]
    /\ answered' = TRUE
    /\ UNCHANGED <<qpc, qret, numEndpoints, userContextUsed, derived,
                   wantDeadline, reqDeadline, groupCtxErr, groupErr, closed,
                   httpCalls, callerAborted, tpc>>
    /\ UNCHANGED <<verifyVars, ctxVars>>

\* Lines 194-215: Do returns a response that decodes to a conclusive OCSP
\* response, which is sent to the channel.  Everything between Do's return
\* and the send is local to the goroutine.  A send to a full channel waits.
TaskPublish(i) ==
    /\ qpc = "running"
    /\ tpc[i] = "inflight"
    /\ Len(ocspResponses) < ChanCap(numEndpoints)
    /\ \E r \in Responses({"Good", "Revoked", "Unknown"}, i) :
         /\ ~Inconclusive(r)
         /\ ocspResponses' = Append(ocspResponses, r)
         /\ published' = Append(published, r)
    /\ tpc' = [tpc EXCEPT ![i] = "sent"]
    /\ tout' = [tout EXCEPT ![i] = "conclusive"]
    /\ answered' = TRUE
    /\ UNCHANGED <<qpc, qret, numEndpoints, userContextUsed, derived,
                   wantDeadline, reqDeadline, groupCtxErr, groupErr, closed,
                   httpCalls, callerAborted>>
    /\ UNCHANGED <<verifyVars, ctxVars>>

\* Line 216: return the sentinel.
TaskReturn(i) ==
    /\ qpc = "running"
    /\ tpc[i] = "sent"
    /\ TaskEnd(i, "conclusive", "errGotOCSPResponse")
    /\ UNCHANGED <<qpc, qret, numEndpoints, userContextUsed, derived,
                   wantDeadline, reqDeadline, ocspResponses, closed, published,
                   httpCalls, answered, callerAborted>>
    /\ UNCHANGED <<verifyVars, ctxVars>>

\* Lines 220-227 and the deferred calls: group.Wait returns once every
\* goroutine has ended, and cancels groupCtx.  Verify goes on at line 70.
CRReturn ==
    /\ qpc = "running"
    /\ AllDone
    /\ qpc' = "returned"
    /\ groupCtxErr' = IF groupCtxErr = "nil" THEN "Canceled" ELSE groupCtxErr
    /\ closed' = TRUE
    /\ IF WaitError(groupErr) # "nil"
         THEN /\ qret' = [res |-> NoRes, err |-> WaitError(groupErr)]
              /\ ocspResponses' = ocspResponses
       ELSE IF Len(ocspResponses) = 0
         THEN /\ qret' = [res |-> NoRes, err |-> "nil"]
              /\ ocspResponses' = ocspResponses
       ELSE /\ qret' = [res |-> Receive(ocspResponses), err |-> "nil"]
            /\ ocspResponses' = Tail(ocspResponses)
    /\ AfterQuery(qret')
    /\ UNCHANGED <<numEndpoints, userContextUsed, derived, wantDeadline,
                   reqDeadline, groupErr, tpc, tout, published, httpCalls,
                   answered, callerAborted>>
    /\ UNCHANGED <<verifiedChains, mustStaple, staple, ctxVars>>

\* ------------------------------------------------------- the environment
\* A cancellation or expiry of the caller's context that reaches the query
\* before any responder has answered and while a goroutine is still to end.
AbortsQuery == qpc = "running" /\ ~answered /\ ~AllDone

\* One second passes.  Timers fire on time: the caller's deadline ends the
\* caller's context and every context derived from it, requestCtx's
\* deadline (when it has one) ends requestCtx and groupCtx.
Tick ==
    /\ pc # "done"
    /\ \/ clock < MaxClock
       \/ /\ qpc = "running"
          /\ groupCtxErr = "nil"
          /\ ~IsZero(reqDeadline)
          /\ clock < reqDeadline
    /\ clock' = clock + 1
    /\ LET callerFires == /\ callerErr = "nil"
                          /\ callerDeadline.ok
                          /\ clock' >= callerDeadline.at
           requestFires == /\ qpc = "running"
                           /\ ~IsZero(reqDeadline)
                           /\ clock' >= reqDeadline
       IN /\ callerErr' = IF callerFires THEN "DeadlineExceeded" ELSE callerErr
          /\ groupCtxErr' =
               IF groupCtxErr = "nil" /\ qpc = "running"
                    /\ (callerFires \/ requestFires)
                 THEN "DeadlineExceeded" ELSE groupCtxErr
          /\ callerAborted' = (callerAborted \/ (callerFires /\ AbortsQuery))
    /\ UNCHANGED callerDeadline
    /\ UNCHANGED <<qpc, qret, numEndpoints, userContextUsed, derived,
                   wantDeadline, reqDeadline, groupErr, tpc, tout,
                   ocspResponses, closed, published, httpCalls, answered>>
    /\ UNCHANGED verifyVars

\* The caller cancels its context.
CallerCancel ==
    /\ pc # "done"
    /\ callerErr = "nil"
    /\ callerErr' = "Canceled"
    /\ groupCtxErr' = IF groupCtxErr = "nil" /\ qpc = "running"
                        THEN "Canceled" ELSE groupCtxErr
    /\ callerAborted' = (callerAborted \/ AbortsQuery)
    /\ UNCHANGED <<callerDeadline, clock>>
    /\ UNCHANGED <<qpc, qret, numEndpoints, userContextUsed, derived,
                   wantDeadline, reqDeadline, groupErr, tpc, tout,
                   ocspResponses, closed, published, httpCalls, answered>>
    /\ UNCHANGED verifyVars

Next ==
    \/ VerifyStart
    \/ VerifyParseStaple
    \/ CRBegin
    \/ \E i \in Tasks : TaskStart(i)
    \/ \E i \in Tasks : TaskTransportError(i)
    \/ \E i \in Tasks : TaskSuppressed(i)
    \/ \E i \in Tasks : TaskPublish(i)
    \/ \E i \in Tasks : TaskReturn(i)
    \/ CRReturn
    \/ Tick
    \/ CallerCancel

Spec == Init /\ [][Next]_vars

\* A request whose context is done is aborted (net/http gives up a request
\* once its context is done).
TaskAbort(i) == TaskTransportError(i) /\ tout'[i] \in {"ctxCanceled", "ctxDeadline"}

\* Every goroutine that can run does run, a request is aborted once its
\* context is done, and time passes.  Nothing makes a responder answer or
\* the caller cancel.
Fairness ==
    /\ WF_vars(VerifyStart)
    /\ WF_vars(VerifyParseStaple)
    /\ WF_vars(CRBegin)
    /\ WF_vars(CRReturn)
    /\ WF_vars(Tick)
    /\ \A i \in Tasks : WF_vars(TaskStart(i))
    /\ \A i \in Tasks : WF_vars(TaskAbort(i))
    /\ \A i \in Tasks : WF_vars(TaskReturn(i))

FairSpec == Spec /\ Fairness

\* ================================================================ claims
Spawned(i) == tpc[i] # "none"
Conclusive(r) == r.status \in {"Good", "Revoked"}
ContextError(o) == o \in {"ctxCanceled", "ctxDeadline"}

\* parseStaple has run.
Parsed ==
    \/ pc = "contactResponders"
    \/ pc = "done" /\ ret \notin {"errNoChains", "errEmptyChain", "errConfig"}

\* The time window of r contains t.
InWindow(r, t) ==
    r.thisUpdate <= t /\ (r.nextUpdate = 0 \/ r.nextUpdate >= t)

\* C1: when parseStaple returns a response or an error (the staple is not
\* empty, or the leaf has Must-Staple), contactResponders is not entered,
\* no goroutine is spawned and no HTTP request is issued; a Good staple
\* whose window contains the time of the check makes Verify return nil
\* with no HTTP request.
C1_StapleSkipsResponders ==
    /\ (Parsed /\ (staple.kind # "empty" \/ mustStaple))
         => /\ qpc = "idle"
            /\ httpCalls = 0
            /\ \A i \in Tasks : ~Spawned(i)
    /\ (pc = "done" /\ staple.kind = "encoded" /\ staple.resp.status = "Good"
          /\ validatorArg = staple.resp /\ InWindow(staple.resp, currTime))
         => ret = "nil" /\ httpCalls = 0

C1_Witness ==
    /\ pc = "done"
    /\ staple.kind = "encoded"
    /\ staple.resp.status = "Good"
    /\ validatorArg = staple.resp
    /\ InWindow(staple.resp, currTime)
    /\ ret = "nil"
    /\ qpc = "idle"

\* C2: when contactResponders returns no response and no error, Verify
\* returns nil and verifyResponse is not called.
C2_FailOpen ==
    (pc = "done" /\ qpc = "returned" /\ qret = [res |-> NoRes, err |-> "nil"])
      => ret = "nil" /\ validatorArg = NoRes

C2_Witness ==
    /\ pc = "done"
    /\ qpc = "returned"
    /\ qret = [res |-> NoRes, err |-> "nil"]
    /\ numEndpoints = MaxResponders
    /\ \A i \in Tasks : tout[i] \in {"netError", "non200", "unknown"}
    /\ ret = "nil"

\* C3: for the response r that verifyResponse was called with at time t,
\* Verify returns the thisUpdate error if r.thisUpdate > t, else the
\* nextUpdate error if r.nextUpdate is set and < t, else the revocation
\* error if r is Revoked, and nil if r is Good inside its window; a Revoked
\* response never gives nil.
C3_ResponseChecks ==
    (pc = "done" /\ validatorArg # NoRes) =>
      LET r == validatorArg
          t == currTime
          stale == r.nextUpdate # 0 /\ r.nextUpdate < t
      IN /\ r.thisUpdate > t => ret = "errThisUpdate"
         /\ (r.thisUpdate <= t /\ stale) => ret = "errNextUpdate"
         /\ (r.thisUpdate <= t /\ ~stale /\ r.status = "Revoked")
              => ret = "errRevoked"
         /\ (r.status = "Good" /\ InWindow(r, t)) => ret = "nil"
         /\ r.status = "Revoked" => ret # "nil"

C3_Witness ==
    /\ pc = "done"
    /\ validatorArg # NoRes
    /\ validatorArg.from # 0
    /\ validatorArg.status = "Revoked"
    /\ InWindow(validatorArg, currTime)
    /\ ret = "errRevoked"

\* C4 as stated: when the caller's deadline is the limiting factor and the
\* caller's context is done before any responder has answered,
\* contactResponders returns an error and so does Verify.
C4_Original ==
    (qpc = "returned" /\ userContextUsed /\ callerAborted)
      => qret.err # "nil" /\ ret \notin {"none", "nil"}

\* C4 as amended: when the caller's deadline is the limiting factor and the
\* caller's context is done before any responder has answered,
\* contactResponders returns an error and so does Verify, provided some
\* request is aborted with the context's error and no goroutine obtains a
\* conclusive response.
C4_FatalWhenAborted ==
    (qpc = "returned" /\ userContextUsed /\ callerAborted
       /\ (\E i \in Tasks : ContextError(tout[i]))
       /\ (\A i \in Tasks : tout[i] # "conclusive"))
      => qret = [res |-> NoRes, err |-> "ocspError"] /\ ret = "ocspError"

C4_Witness ==
    /\ qpc = "returned"
    /\ userContextUsed
    /\ callerAborted
    /\ callerErr = "Canceled"
    /\ \A i \in Tasks : tout[i] = "ctxCanceled"
    /\ ret = "ocspError"

C6_Original ==
    (qpc = "returned" /\ Len(published) > 0
       /\ \A i \in Tasks : tout[i] \in {"none", "conclusive", "ctxCanceled",
                                         "ctxDeadline"})
      => qret.err = "nil" /\ Conclusive(qret.res)

\* C7 as stated: when exactly one goroutine k obtains a conclusive
\* response, every other one is aborted with the context's error, and the
\* caller's context is not done before k's responder answers,
\* contactResponders returns k's response and no error.
C7_Original ==
    \A k \in Tasks :
      (/\ qpc = "returned"
       /\ tout[k] = "conclusive"
       /\ \A j \in Tasks \ {k} : Spawned(j) => ContextError(tout[j])
       /\ ~callerAborted)
        => qret.err = "nil" /\ qret.res = published[1] /\ qret.res.from = k

\* C8 as stated: when every goroutine ends with a request-build failure, a
\* transport failure that is not the context's, a non-200 status, a body
\* read failure, a decode failure or status Unknown, contactResponders
\* returns no response and no error.
C8_Original ==
    (qpc = "returned"
       /\ \A i \in Tasks : Spawned(i) =>
            tout[i] \in {"buildFail", "netTimeout", "netError", "non200",
                         "readFail", "decodeFail", "unknown"})
      => qret = [res |-> NoRes, err |-> "nil"]

\* C9: when contactResponders chooses its context at time now, the
\* requests' deadline is the earlier of the caller's deadline and now + 5 s
\* (now + 5 s without a caller deadline); userContextUsed is false exactly
\* when the caller has no deadline or one later than now + 5 s, and
\* otherwise no context is derived.
C9_DeadlineComposition ==
    [][(qpc = "idle" /\ qpc' = "running") =>
         LET cutoff == clock + DefaultRequestTimeout
             later == ~callerDeadline.ok \/ callerDeadline.at > cutoff
         IN /\ reqDeadline' =
                 IF callerDeadline.ok /\ callerDeadline.at < cutoff
                   THEN callerDeadline.at ELSE cutoff
            /\ reqDeadline' <= cutoff
            /\ userContextUsed' = ~later
            /\ derived' = later]_vars

C9_Witness ==
    /\ qpc = "running"
    /\ callerDeadline.ok
    /\ callerDeadline.at = wantDeadline
    /\ userContextUsed
    /\ ~derived
    /\ reqDeadline = callerDeadline.at

\* C10: with Must-Staple and an empty staple, parseStaple fails and Verify
\* returns its error without entering contactResponders; with an empty
\* staple and no Must-Staple, Verify enters contactResponders.
C10_EmptyStaple ==
    (Parsed /\ staple.kind = "empty") =>
      IF mustStaple
        THEN pc = "done" /\ ret = "errMustStaple" /\ qpc = "idle"
        ELSE pc = "contactResponders" \/ qpc = "returned"

C10_Witness ==
    /\ pc = "done"
    /\ staple.kind = "empty"
    /\ mustStaple
    /\ ret = "errMustStaple"

\* C11: a staple that is not empty and that the codec fails to decode makes
\* Verify return an error, with or without Must-Staple, and
\* contactResponders is not entered afterwards.
C11_MalformedStaple ==
    (Parsed /\ staple.kind = "malformed") =>
      /\ pc = "done"
      /\ ret = "errParseStaple"
      /\ qpc = "idle"
      /\ httpCalls = 0
      /\ \A i \in Tasks : ~Spawned(i)

C11_Witness ==
    /\ pc = "done"
    /\ staple.kind = "malformed"
    /\ ~mustStaple
    /\ ret = "errParseStaple"

\* C12: once contactResponders has returned, every goroutine it spawned
\* has ended, and nothing is sent to the channel after it has been closed.
C12_NoOrphans ==
    /\ [](qpc = "returned" => \A i \in Tasks : tpc[i] \in {"none", "done"})
    /\ [](closed => \A i \in Tasks : tpc[i] \in {"none", "done"})
    /\ [][closed => published' = published]_vars

C12_Witness ==
    /\ qpc = "returned"
    /\ closed
    /\ numEndpoints = MaxResponders
    /\ Len(published) > 0
    /\ \E i \in Tasks : tout[i] = "ctxCanceled"
    /\ \A i \in Tasks : tpc[i] = "done"

\* C13: when the set of verified chains is empty or its first chain holds
\* no certificate, Verify returns an error, and neither parseStaple nor
\* contactResponders runs.
C13_NoChain ==
    (pc # "start" /\ (Len(verifiedChains) = 0 \/ verifiedChains[1] = 0)) =>
      /\ pc = "done"
      /\ ret = IF Len(verifiedChains) = 0 THEN "errNoChains"
                                          ELSE "errEmptyChain"
      /\ staple.kind = "empty" /\ ~mustStaple /\ validatorArg = NoRes
      /\ qpc = "idle" /\ httpCalls = 0

C13_Witness ==
    /\ pc = "done"
    /\ verifiedChains = <<0, 1>>
    /\ ret = "errEmptyChain"
    /\ qpc = "idle"

\* C14: when the leaf certificate lists no responder endpoint,
\* contactResponders returns no response and no error at once: no context
\* is composed, no channel made, no goroutine spawned and no request
\* issued, whatever the state of the caller's context.
C14_NoEndpoints ==
    (qpc # "idle" /\ numEndpoints = 0) =>
      /\ qpc = "returned"
      /\ qret = [res |-> NoRes, err |-> "nil"]
      /\ wantDeadline = 0 /\ ~derived /\ ~closed
      /\ httpCalls = 0
      /\ \A i \in Tasks : ~Spawned(i)

C14_Witness ==
    /\ qpc = "returned"
    /\ numEndpoints = 0
    /\ callerErr = "Canceled"
    /\ qret = [res |-> NoRes, err |-> "nil"]
    /\ ret = "nil"

\* C15: a response returned by contactResponders was sent to the channel
\* by one of its goroutines, has status Good or Revoked, and is the first
\* one sent; the responses sent after it are left in the channel.
C15_FirstWins ==
    (qpc = "returned" /\ qret.res # NoRes) =>
      /\ qret.err = "nil"
      /\ Len(published) > 0
      /\ qret.res = published[1]
      /\ Conclusive(qret.res)
      /\ qret.res.from \in Tasks
      /\ Spawned(qret.res.from) /\ tout[qret.res.from] = "conclusive"
      /\ ocspResponses = Tail(published)

C15_Witness ==
    /\ qpc = "returned"
    /\ Len(published) = 2
    /\ published[1].status = "Good"
    /\ published[2].status = "Revoked"
    /\ qret.res = published[1]
    /\ ret = "nil"

\* C16 as stated: the channel never holds responses from two different
\* goroutines.
C16_Original ==
    \A m, n \in 1..Len(ocspResponses) :
      ocspResponses[m].from = ocspResponses[n].from

\* C16 as amended: each goroutine sends at most one response, and only
\* after it decoded a conclusive one; the channel can hold the responses of
\* several goroutines, of which contactResponders takes the first.
C16_OnePerTask ==
    /\ \A m, n \in 1..Len(published) :
         m # n => published[m].from # published[n].from
    /\ \A m \in 1..Len(published) :
         /\ published[m].from \in Tasks
         /\ tout[published[m].from] = "conclusive"
    /\ (qpc = "returned" /\ Len(published) > 0 /\ qret.err = "nil")
         => qret.res = published[1]

C16_Witness ==
    /\ qpc = "returned"
    /\ Len(published) = 2
    /\ published[1].from = 2
    /\ published[2].from = 1
    /\ qret.res = published[1]

\* C17: every goroutine sends at most once, the channel never holds more
\* responses than there are endpoints, and a goroutine whose request is
\* still in flight finds room in the channel whenever it comes to send,
\* also after groupCtx has been cancelled.
C17_SendNeverWaits ==
    /\ Len(ocspResponses) <= numEndpoints
    /\ Len(published) <= Cardinality({i \in Tasks : Spawned(i)})
    /\ \A i \in Tasks :
         Cardinality({m \in 1..Len(published) : published[m].from = i}) <= 1
    /\ \A i \in Tasks :
         tpc[i] = "inflight" => Len(ocspResponses) < ChanCap(numEndpoints)

C17_Witness ==
    /\ qpc = "running"
    /\ numEndpoints = MaxResponders
    /\ groupCtxErr = "Canceled"
    /\ groupErr = "errGotOCSPResponse"
    /\ Len(ocspResponses) = numEndpoints
    /\ \E i \in Tasks : tpc[i] = "sent"

\* C18 as stated: verifyResponse is only called with a response whose
\* status is Good or Revoked.
C18_Original ==
    validatorArg # NoRes => Conclusive(validatorArg)

\* C18 as amended: a response that came from a responder reaches
\* verifyResponse only with status Good or Revoked; a response with status
\* Unknown that reaches verifyResponse is the stapled one, and Verify then
\* returns nil when the time of the check lies in its window.
C18_UnknownOnlyFromStaple ==
    validatorArg # NoRes =>
      /\ validatorArg.from # 0 => Conclusive(validatorArg)
      /\ validatorArg.status = "Unknown" =>
           /\ validatorArg.from = 0
           /\ staple.kind = "encoded" /\ validatorArg = staple.resp
           /\ qpc = "idle"
           /\ (pc = "done" /\ InWindow(validatorArg, currTime)) => ret = "nil"

C18_Witness ==
    /\ pc = "done"
    /\ validatorArg.status = "Unknown"
    /\ validatorArg = staple.resp
    /\ InWindow(validatorArg, currTime)
    /\ ret = "nil"

\* C19: when the caller's deadline is the limiting factor and the sentinel
\* of a conclusive goroutine is the first error the group records,
\* contactResponders returns the first response sent and no error, also
\* when the cancellation this triggers ends other goroutines with the
\* context's error, which they return as a fatal error.
C19_SentinelFirst ==
    (qpc = "returned" /\ userContextUsed /\ groupErr = "errGotOCSPResponse")
      => /\ qret.err = "nil"
         /\ qret.res = published[1]
         /\ Conclusive(qret.res)
         /\ ret \in {"nil", "errThisUpdate", "errNextUpdate", "errRevoked"}

C19_Witness ==
    /\ qpc = "returned"
    /\ userContextUsed
    /\ callerErr = "nil"
    /\ groupErr = "errGotOCSPResponse"
    /\ \E i \in Tasks :
         /\ tout[i] = "ctxCanceled"
         /\ TransportResult(userContextUsed, tout[i]) = "ocspError"
    /\ qret.err = "nil"
    /\ qret.res = published[1]

\* C20: with fair scheduling and requests that end or are aborted once
\* their context is done, contactResponders returns, with exactly one of a
\* response and no error, no response and no error, or no response and an
\* error, and Verify returns.
C20_Termination ==
    <>(/\ pc = "done"
       /\ ret # "none"
       /\ qpc \in {"idle", "returned"}
       /\ qpc = "returned" =>
            \/ qret.res # NoRes /\ qret.err = "nil"
            \/ qret = [res |-> NoRes, err |-> "nil"]
            \/ qret.res = NoRes /\ qret.err # "nil")

C20_Witness ==
    /\ pc = "done"
    /\ qpc = "returned"
    /\ ~callerDeadline.ok
    /\ callerErr = "nil"
    /\ wantDeadline > MaxClock
    /\ clock = wantDeadline
    /\ numEndpoints = MaxResponders
    /\ \A i \in Tasks : tout[i] = "ctxDeadline"
    /\ ret = "nil"

====
